---- MODULE Spec2Model ----
(***************************************************************************)
(* Model of the Palletizer Go SDK client (src/client.go).                  *)
(*                                                                         *)
(* One Client is built by one of the three constructors.  Any number of    *)
(* goroutines call Client.Pack on it, concurrently or one after another.   *)
(* Pack has two suspension points, c.httpClient.Do and io.ReadAll; the     *)
(* code before, between and after them runs without suspension and is      *)
(* modelled by the operators PackPrepare, the *Return operators and        *)
(* PackFinish.  The network, the server and the caller's context are the   *)
(* environment: they choose what Do and ReadAll deliver and when the       *)
(* context is cancelled.                                                   *)
(*                                                                         *)
(* A Go pointer or error is a sequence of length at most one: <<>> is nil. *)
(* Decimal quantities (millimetres, grams, inches, pounds) are fixed-point *)
(* integers counting thousandths.                                         *)
(***************************************************************************)
EXTENDS Integers, Sequences, FiniteSets, TLC

VARIABLES client, pc, ctx, request, httpReq, resp, bodyOpen, doCalls,
          served, result, unitsIn, unitsOp, unitsOut

vars == <<client, pc, ctx, request, httpReq, resp, bodyOpen, doCalls,
          served, result, unitsIn, unitsOp, unitsOut>>

packVars == <<client, pc, ctx, request, httpReq, resp, bodyOpen, doCalls,
              served, result>>

unitVars == <<unitsIn, unitsOp, unitsOut>>

(***************************************************************************)
(* Bounds of the model.                                                    *)
(***************************************************************************)
\* Goroutines that may be inside Pack on the same Client at the same time.
NumCallers == 2

\* Largest whole number of inches a caller converts, beyond the presets'.
MaxExtraInches == 2

Callers == 1..NumCallers

Nil == <<>>

Some(x) == <<x>>

(***************************************************************************)
(* Construction.                                                           *)
(***************************************************************************)
defaultAPIURL == "https://api.palletizer.app"

\* http.Client values: the one the constructors build, and a caller's own.
DefaultHTTPClient == [Timeout |-> "120s"]

CustomHTTPClient == [Timeout |-> "60s"]

New == [baseURL |-> defaultAPIURL, httpClient |-> DefaultHTTPClient]

NewWithEndpoint(baseURL) == [baseURL |-> baseURL, httpClient |-> DefaultHTTPClient]

NewWithHTTPClient(httpClient) == [baseURL |-> defaultAPIURL, httpClient |-> httpClient]

\* Endpoints a caller may pass: a test server, and one url.Parse rejects.
GoodEndpoint == "http://localhost:8080"

BadEndpoint == "://missing-scheme"

Endpoints == {GoodEndpoint, BadEndpoint}

Clients == {New} \cup {NewWithEndpoint(e) : e \in Endpoints}
                 \cup {NewWithHTTPClient(CustomHTTPClient)}

(***************************************************************************)
(* Requests and json.Marshal.                                              *)
(***************************************************************************)
\* A PackingRequest with one carton; a float64 field may hold NaN, which
\* encoding/json refuses to encode.
ValidRequest == [Cartons |-> <<[ID |-> "BOX001", Weight |-> "18143.68", Quantity |-> 1]>>]

NaNRequest == [Cartons |-> <<[ID |-> "BOX001", Weight |-> "NaN", Quantity |-> 1]>>]

Requests == {ValidRequest, NaNRequest}

EncodeCarton(c) == [id |-> c.ID, weight |-> c.Weight, quantity |-> c.Quantity]

\* json.Marshal(request): the JSON document, or an UnsupportedValueError.
Marshal(r) ==
  IF \E k \in 1..Len(r.Cartons) : r.Cartons[k].Weight = "NaN"
  THEN [ok |-> FALSE, data |-> Nil, cause |-> "json: unsupported value: NaN"]
  ELSE [ok |-> TRUE,
        data |-> Some([cartons |-> [k \in 1..Len(r.Cartons) |-> EncodeCarton(r.Cartons[k])]]),
        cause |-> ""]

(***************************************************************************)
(* http.NewRequestWithContext.                                             *)
(***************************************************************************)
PackPath == "/api/v1/pack"

RequestMethod == "POST"

ContentType == "application/json"

\* url.Parse accepts the URL only if its base names a scheme.
URLParses(base) == base # BadEndpoint

NewRequestWithContext(method, base, path, data) ==
  IF URLParses(base)
  THEN [ok |-> TRUE,
        req |-> Some([Method |-> method, URL |-> <<base, path>>, Header |-> "", Body |-> data]),
        cause |-> ""]
  ELSE [ok |-> FALSE, req |-> Nil, cause |-> "parse: missing protocol scheme"]

(***************************************************************************)
(* Errors: what fmt.Errorf builds.  fmt is the format string; status, text *)
(* and body are its %d and %s arguments, cause the error wrapped by %w.    *)
(***************************************************************************)
Errorf(format, status, text, body, cause) ==
  [fmt |-> format, status |-> status, text |-> text, body |-> body, cause |-> cause]

\* The two values Pack returns.
Return(response, err) == [resp |-> response, err |-> err]

(***************************************************************************)
(* Response bodies, as the JSON value the bytes spell, and json.Unmarshal  *)
(* into a PackingResponse.  keys are the members the object holds; a       *)
(* member the object lacks has its zero value in the record.               *)
(***************************************************************************)
ZeroSummary == [total_pallets |-> 0, total_cartons_packed |-> 0]

JSONBody(kind, keys, pallets, summary, error, errorIsString) ==
  [json |-> kind, keys |-> keys, pallets |-> pallets, summary |-> summary,
   error |-> error, errorIsString |-> errorIsString]

WirePallet == [pallet_id |-> 1, cartons |-> <<"BOX001_1">>]

\* The fixture of TestPack: one pallet, one carton.
BodyFixture ==
  JSONBody("object", {"pallets", "summary"}, <<WirePallet>>,
           [total_pallets |-> 1, total_cartons_packed |-> 1], "", TRUE)

\* A full response that also reports a soft error.
BodySoftError ==
  JSONBody("object", {"pallets", "summary", "error"}, <<>>, ZeroSummary,
           "carton too large", TRUE)

\* {"error": "carton too large"}
BodyErrorOnly ==
  JSONBody("object", {"error"}, <<>>, ZeroSummary, "carton too large", TRUE)

\* {"message": "internal"}: an object with no member Pack knows.
BodyUnknownKey == JSONBody("object", {"message"}, <<>>, ZeroSummary, "", TRUE)

\* {"error": 42}: the member has the wrong type.
BodyErrorNumber == JSONBody("object", {"error"}, <<>>, ZeroSummary, "", FALSE)

\* <html>502 Bad Gateway</html>: not JSON at all.
BodyHTML == JSONBody("invalid", {}, <<>>, ZeroSummary, "", TRUE)

\* null
BodyNull == JSONBody("null", {}, <<>>, ZeroSummary, "", TRUE)

Bodies == {BodyFixture, BodySoftError, BodyErrorOnly, BodyUnknownKey,
           BodyErrorNumber, BodyHTML, BodyNull}

DecodePallet(p) == [PalletID |-> p.pallet_id, Cartons |-> p.cartons]

DecodeSummary(s) ==
  [TotalPallets |-> s.total_pallets, TotalCartonsPacked |-> s.total_cartons_packed]

\* The zero PackingResponse that "var response PackingResponse" declares.
ZeroResponse == [Pallets |-> <<>>, Summary |-> DecodeSummary(ZeroSummary), Error |-> ""]

\* json.Unmarshal(body, &response): members the struct does not name are
\* ignored, members the body lacks keep their zero value, null is a no-op.
Unmarshal(b) ==
  CASE b.json = "invalid" ->
         [ok |-> FALSE, response |-> ZeroResponse,
          cause |-> "json: invalid character looking for beginning of value"]
    [] b.json = "null" ->
         [ok |-> TRUE, response |-> ZeroResponse, cause |-> ""]
    [] b.json = "object" /\ "error" \in b.keys /\ ~b.errorIsString ->
         [ok |-> FALSE, response |-> ZeroResponse,
          cause |-> "json: cannot unmarshal number into Go struct field PackingResponse.error of type string"]
    [] b.json = "object" ->
         [ok |-> TRUE,
          response |->
            [Pallets |-> IF "pallets" \in b.keys
                         THEN [k \in 1..Len(b.pallets) |-> DecodePallet(b.pallets[k])]
                         ELSE ZeroResponse.Pallets,
             Summary |-> IF "summary" \in b.keys
                         THEN DecodeSummary(b.summary)
                         ELSE ZeroResponse.Summary,
             Error |-> IF "error" \in b.keys THEN b.error ELSE ZeroResponse.Error],
          cause |-> ""]
    [] OTHER ->
         [ok |-> FALSE, response |-> ZeroResponse,
          cause |-> "json: cannot unmarshal into Go value of type palletizer.PackingResponse"]

(***************************************************************************)
(* The exits of Pack.                                                      *)
(***************************************************************************)
StatusOK == 200

MarshalFailureReturn(cause) ==
  Return(Nil, Some(Errorf("failed to marshal request: %w", Nil, Nil, Nil, Some(cause))))

CreateFailureReturn(cause) ==
  Return(Nil, Some(Errorf("failed to create request: %w", Nil, Nil, Nil, Some(cause))))

SendFailureReturn(cause) ==
  Return(Nil, Some(Errorf("failed to send request: %w", Nil, Nil, Nil, Some(cause))))
\* Faulty variant: the read error is dropped and the truncated body goes to the parser.
ReadFailureAsParse(cause) ==
  Return(Nil, Some(Errorf("failed to parse response: %w", Nil, Nil, Nil,
                          Some("unexpected end of JSON input"))))

ReadFailureReturn(cause) ==
  Return(Nil, Some(Errorf("failed to read response: %w", Nil, Nil, Nil, Some(cause))))

ParseFailureReturn(cause) ==
  Return(Nil, Some(Errorf("failed to parse response: %w", Nil, Nil, Nil, Some(cause))))
\* Faulty variant: the decoded response is handed back along with the status error.
StatusErrorWithResponse(StatusCode, response, body) ==
  IF response.Error # ""
  THEN Return(Some(response), Some(Errorf("API error (status %d): %s",
                                          Some(StatusCode), Some(response.Error), Nil, Nil)))
  ELSE Return(Some(response), Some(Errorf("API returned status %d: %s",
                                          Some(StatusCode), Nil, Some(body), Nil)))

\* Faulty variant: the status error always quotes the raw body, never the error member.
StatusErrorRawOnly(StatusCode, response, body) ==
  Return(Nil, Some(Errorf("API returned status %d: %s",
                          Some(StatusCode), Nil, Some(body), Nil)))

\* Faulty variant: the status error leaves the status code out.
StatusErrorWithoutCode(StatusCode, response, body) ==
  IF response.Error # ""
  THEN Return(Nil, Some(Errorf("API error: %s", Nil, Some(response.Error), Nil, Nil)))
  ELSE Return(Nil, Some(Errorf("API returned: %s", Nil, Nil, Some(body), Nil)))

StatusErrorReturn(StatusCode, response, body) ==
  IF response.Error # ""
  THEN Return(Nil, Some(Errorf("API error (status %d): %s",
                               Some(StatusCode), Some(response.Error), Nil, Nil)))
  ELSE Return(Nil, Some(Errorf("API returned status %d: %s",
                               Some(StatusCode), Nil, Some(body), Nil)))
\* Faulty variant: a non-empty error member fails the call on a success status too.
SoftErrorAsFailure(response) ==
  IF response.Error # ""
  THEN Return(Nil, Some(Errorf("API error (status %d): %s",
                               Some(StatusOK), Some(response.Error), Nil, Nil)))
  ELSE Return(Some(response), Nil)

SuccessReturn(response) == Return(Some(response), Nil)

(***************************************************************************)
(* Pack, between its suspension points.                                    *)
(***************************************************************************)
\* Lines 186-195: marshal the request and build the HTTP request.
PackPrepare(c, r) ==
  LET m == Marshal(r) IN
  IF ~m.ok
  THEN [ok |-> FALSE, ret |-> MarshalFailureReturn(m.cause), req |-> Nil]
  ELSE LET n == NewRequestWithContext(RequestMethod, c.baseURL, PackPath, m.data) IN
       IF ~n.ok
       THEN [ok |-> FALSE, ret |-> CreateFailureReturn(n.cause), req |-> Nil]
       ELSE [ok |-> TRUE, ret |-> Return(Nil, Nil),
             req |-> Some([n.req[1] EXCEPT !.Header = ContentType])]
\* Faulty variant: the status is checked before the body is parsed.
PackFinishStatusFirst(StatusCode, read) ==
  IF ~read.ok
  THEN ReadFailureReturn(read.cause)
  ELSE LET body == read.body[1]
           u == Unmarshal(body) IN
       IF StatusCode # StatusOK
       THEN StatusErrorReturn(StatusCode, u.response, body)
       ELSE IF ~u.ok
            THEN ParseFailureReturn(u.cause)
            ELSE SuccessReturn(u.response)

\* Faulty variant: every 2xx status counts as success.
PackFinishAny2xx(StatusCode, read) ==
  IF ~read.ok
  THEN ReadFailureReturn(read.cause)
  ELSE LET body == read.body[1]
           u == Unmarshal(body) IN
       IF ~u.ok
       THEN ParseFailureReturn(u.cause)
       ELSE IF StatusCode < 200 \/ StatusCode >= 300
            THEN StatusErrorReturn(StatusCode, u.response, body)
            ELSE SuccessReturn(u.response)

\* Lines 203-220: what Pack returns once io.ReadAll has returned.
PackFinish(StatusCode, read) ==
  IF ~read.ok
  THEN ReadFailureReturn(read.cause)
  ELSE LET body == read.body[1]
           u == Unmarshal(body) IN
       IF ~u.ok
       THEN ParseFailureReturn(u.cause)
       ELSE IF StatusCode # StatusOK
            THEN StatusErrorReturn(StatusCode, u.response, body)
            ELSE SuccessReturn(u.response)
\* Faulty variant: the body is closed before the final return only, not deferred.
CloseOnSuccessOnly(ret) == ret.err = Nil

\* Line 201: the deferred resp.Body.Close() runs on every return after it.
DeferredClose(ret) == TRUE
\* Faulty variant: a failed send is tried once more.
RetryOnce(attempts) == IF attempts < 2 THEN "do" ELSE "done"

\* Lines 198-200: a failed Do ends the call; nothing sends again.
AfterSendFailure(attempts) == "done"
\* Faulty variant: the response is kept in one place shared by every invocation.
RespSlotShared(i) == 1

\* Where an invocation keeps the *http.Response Do gave it: a local of its own.
RespSlot(i) == i

(***************************************************************************)
(* The environment: what c.httpClient.Do and io.ReadAll can deliver.       *)
(***************************************************************************)
Statuses == {StatusOK, 201, 400, 500}

\* Do fails once the request's context is done; otherwise the network may
\* fail or the server's status line and headers arrive.
DoOutcomes(c) ==
  IF c = "canceled"
  THEN {[ok |-> FALSE, StatusCode |-> Nil, cause |-> "context canceled"]}
  ELSE {[ok |-> FALSE, StatusCode |-> Nil, cause |-> "dial tcp: connection refused"]}
       \cup {[ok |-> TRUE, StatusCode |-> Some(s), cause |-> ""] : s \in Statuses}

\* While bytes of the body are outstanding a done context closes the
\* connection and the read fails; otherwise the connection may break or the
\* whole body arrives.
ReadAllOutcomes(c) ==
  IF c = "canceled"
  THEN {[ok |-> FALSE, body |-> Nil, cause |-> "context canceled"]}
  ELSE {[ok |-> FALSE, body |-> Nil, cause |-> "unexpected EOF"]}
       \cup {[ok |-> TRUE, body |-> Some(b), cause |-> ""] : b \in Bodies}

NotServed == [do |-> Nil, read |-> Nil]

NotReturned == Return(Nil, Nil)

\* resp.StatusCode of the response held in a slot.
StatusCodeOf(r) == IF r = Nil THEN 0 ELSE r[1].StatusCode

(***************************************************************************)
(* Unit conversions and presets, in fixed-point thousandths.               *)
(***************************************************************************)
Fixed(whole, thousandths) == whole * 1000 + thousandths

\* a * b of two fixed-point numbers, without leaving 32 bits.
MulFixed(a, b) == (a \div 1000) * b + ((a % 1000) * b) \div 1000

\* a / b of two fixed-point numbers, truncated to thousandths.
DivFixed(a, b) == (a \div b) * 1000 + ((a % b) * 1000) \div b

MillimetersPerInch == Fixed(25, 400)

GramsPerPound == Fixed(453, 592)
\* Faulty variant: the factor loses its fraction.
InchesToMMWholeFactor(inches) == MulFixed(inches, Fixed(25, 0))

InchesToMM(inches) == MulFixed(inches, MillimetersPerInch)

PoundsToGrams(pounds) == MulFixed(pounds, GramsPerPound)

\* Faulty variant: millimetres are taken for centimetres.
MMToInchesFromCentimetres(mm) == DivFixed(mm, Fixed(2, 540))

MMToInches(mm) == DivFixed(mm, MillimetersPerInch)

GramsToPounds(grams) == DivFixed(grams, GramsPerPound)

StandardPallet ==
  [MaxLength |-> Fixed(1016, 0), MaxWidth |-> Fixed(1828, 800),
   MaxHeight |-> Fixed(1219, 200), MaxWeight |-> Fixed(680388, 0)]

StandardPallet4048 ==
  [MaxLength |-> Fixed(1016, 0), MaxWidth |-> Fixed(1219, 200),
   MaxHeight |-> Fixed(1219, 200), MaxWeight |-> Fixed(680388, 0)]

\* The "custom pallet" of the README: constraints built with the helpers.
CustomPallet(in) ==
  [MaxLength |-> InchesToMM(in.length), MaxWidth |-> InchesToMM(in.width),
   MaxHeight |-> InchesToMM(in.height), MaxWeight |-> PoundsToGrams(in.pounds)]

ZeroConstraints == [MaxLength |-> 0, MaxWidth |-> 0, MaxHeight |-> 0, MaxWeight |-> 0]

\* Imperial inputs a caller converts: the presets' nominal sizes and a few more.
InchInputs ==
  {Fixed(n, 0) : n \in {10, 40, 48, 72} \cup (0..MaxExtraInches)}
    \cup {Fixed(24, 500), Fixed(0, 1)}

PoundInputs == {Fixed(1500, 0), Fixed(10, 0), Fixed(40, 250), Fixed(0, 1)}

UnitInputs ==
  [length : InchInputs, width : InchInputs, height : InchInputs, pounds : PoundInputs]

NoUnits == [length |-> 0, width |-> 0, height |-> 0, pounds |-> 0]

(***************************************************************************)
(* The state machine of Pack.                                              *)
(***************************************************************************)
PackIdle ==
  /\ pc = [i \in Callers |-> "idle"]
  /\ ctx = [i \in Callers |-> "live"]
  /\ request = [i \in Callers |-> Nil]
  /\ httpReq = [i \in Callers |-> Nil]
  /\ resp = [i \in Callers |-> Nil]
  /\ bodyOpen = [i \in Callers |-> FALSE]
  /\ doCalls = [i \in Callers |-> 0]
  /\ served = [i \in Callers |-> NotServed]
  /\ result = [i \in Callers |-> NotReturned]

Init ==
  /\ client \in Clients
  /\ PackIdle
  /\ unitsIn = NoUnits
  /\ unitsOp = "none"
  /\ unitsOut = ZeroConstraints

\* client.Pack(ctx, request) up to the call of c.httpClient.Do.
Call(i) ==
  /\ pc[i] = "idle"
  /\ \E r \in Requests, c \in {"live", "canceled"} :
       LET p == PackPrepare(client, r) IN
       /\ request' = [request EXCEPT ![i] = Some(r)]
       /\ ctx' = [ctx EXCEPT ![i] = c]
       /\ httpReq' = [httpReq EXCEPT ![i] = p.req]
       /\ pc' = [pc EXCEPT ![i] = IF p.ok THEN "do" ELSE "done"]
       /\ doCalls' = [doCalls EXCEPT ![i] = IF p.ok THEN 1 ELSE 0]
       /\ result' = [result EXCEPT ![i] = p.ret]
  /\ UNCHANGED <<client, resp, bodyOpen, served, unitVars>>

\* The caller cancels the context, or its deadline passes, during the call.
Cancel(i) ==
  /\ pc[i] \in {"do", "read"}
  /\ ctx[i] = "live"
  /\ ctx' = [ctx EXCEPT ![i] = "canceled"]
  /\ UNCHANGED <<client, pc, request, httpReq, resp, bodyOpen, doCalls,
                 served, result, unitVars>>

\* c.httpClient.Do returns; lines 197-201.
DoReturns(i) ==
  /\ pc[i] = "do"
  /\ \E o \in DoOutcomes(ctx[i]) :
       /\ served' = [served EXCEPT ![i].do = Some(o)]
       /\ IF o.ok
          THEN /\ resp' = [resp EXCEPT ![RespSlot(i)] = Some([StatusCode |-> o.StatusCode[1]])]
               /\ bodyOpen' = [bodyOpen EXCEPT ![i] = TRUE]
               /\ pc' = [pc EXCEPT ![i] = "read"]
               /\ UNCHANGED <<result, doCalls>>
          ELSE IF AfterSendFailure(doCalls[i]) = "do"
          THEN /\ doCalls' = [doCalls EXCEPT ![i] = @ + 1]
               /\ UNCHANGED <<resp, bodyOpen, pc, result>>
          ELSE /\ result' = [result EXCEPT ![i] = SendFailureReturn(o.cause)]
               /\ pc' = [pc EXCEPT ![i] = "done"]
               /\ UNCHANGED <<resp, bodyOpen, doCalls>>
  /\ UNCHANGED <<client, ctx, request, httpReq, unitVars>>

\* io.ReadAll returns; lines 203-221, the deferred Close included.
ReadReturns(i) ==
  /\ pc[i] = "read"
  /\ \E o \in ReadAllOutcomes(ctx[i]) :
       LET ret == PackFinish(StatusCodeOf(resp[RespSlot(i)]), o) IN
       /\ served' = [served EXCEPT ![i].read = Some(o)]
       /\ result' = [result EXCEPT ![i] = ret]
       /\ bodyOpen' = [bodyOpen EXCEPT ![i] = ~DeferredClose(ret)]
  /\ resp' = [resp EXCEPT ![RespSlot(i)] = Nil]
  /\ pc' = [pc EXCEPT ![i] = "done"]
  /\ UNCHANGED <<client, ctx, request, httpReq, doCalls, unitVars>>

\* The caller takes the result; the goroutine may call Pack again.
Collect(i) ==
  /\ pc[i] = "done"
  /\ pc' = [pc EXCEPT ![i] = "idle"]
  /\ ctx' = [ctx EXCEPT ![i] = "live"]
  /\ request' = [request EXCEPT ![i] = Nil]
  /\ httpReq' = [httpReq EXCEPT ![i] = Nil]
  /\ doCalls' = [doCalls EXCEPT ![i] = 0]
  /\ served' = [served EXCEPT ![i] = NotServed]
  /\ result' = [result EXCEPT ![i] = NotReturned]
  /\ UNCHANGED <<client, resp, bodyOpen, unitVars>>

Next ==
  \E i \in Callers :
    \/ Call(i)
    \/ Cancel(i)
    \/ DoReturns(i)
    \/ ReadReturns(i)
    \/ Collect(i)

Spec == Init /\ [][Next]_vars

(***************************************************************************)
(* The state machine of a caller building PackingConstraints.              *)
(***************************************************************************)
InitUnits ==
  /\ client = New
  /\ PackIdle
  /\ unitsIn \in UnitInputs
  /\ unitsOp = "none"
  /\ unitsOut = ZeroConstraints

CallStandardPallet ==
  /\ unitsOp = "none"
  /\ unitsOp' = "StandardPallet"
  /\ unitsOut' = StandardPallet
  /\ UNCHANGED <<unitsIn, packVars>>

CallStandardPallet4048 ==
  /\ unitsOp = "none"
  /\ unitsOp' = "StandardPallet4048"
  /\ unitsOut' = StandardPallet4048
  /\ UNCHANGED <<unitsIn, packVars>>

CallCustomPallet ==
  /\ unitsOp = "none"
  /\ unitsOp' = "CustomPallet"
  /\ unitsOut' = CustomPallet(unitsIn)
  /\ UNCHANGED <<unitsIn, packVars>>

\* The caller converts the metric constraints back for display.
CallFromMetric ==
  /\ unitsOp = "CustomPallet"
  /\ unitsOp' = "FromMetric"
  /\ unitsOut' = [MaxLength |-> MMToInches(unitsOut.MaxLength),
                  MaxWidth |-> MMToInches(unitsOut.MaxWidth),
                  MaxHeight |-> MMToInches(unitsOut.MaxHeight),
                  MaxWeight |-> GramsToPounds(unitsOut.MaxWeight)]
  /\ UNCHANGED <<unitsIn, packVars>>

NextUnits ==
  \/ CallStandardPallet
  \/ CallStandardPallet4048
  \/ CallCustomPallet
  \/ CallFromMetric

SpecUnits == InitUnits /\ [][NextUnits]_vars

(***************************************************************************)
(* Vocabulary of the properties.  The error taxonomy sorts Pack's errors   *)
(* by where they arise; Pack's errors differ only in their format string.  *)
(***************************************************************************)
IsTransportError(e) ==
  e.fmt \in {"failed to marshal request: %w", "failed to create request: %w",
             "failed to send request: %w", "failed to read response: %w"}

IsDecodeError(e) == e.fmt = "failed to parse response: %w"

IsApplicationError(e) ==
  e.fmt \in {"API error (status %d): %s", "API returned status %d: %s"}

Done(i) == pc[i] = "done"

\* Do gave invocation i a response, with this status.
GotResponse(i) == served[i].do # Nil /\ served[i].do[1].ok

ServedStatus(i) == served[i].do[1].StatusCode[1]

\* ReadAll gave invocation i the whole body.
GotBody(i) == served[i].read # Nil /\ served[i].read[1].ok

ServedBody(i) == served[i].read[1].body[1]

\* The body is a JSON document of PackingResponse's shape.
Decodes(b) ==
  \/ b.json = "null"
  \/ b.json = "object" /\ ("error" \in b.keys => b.errorIsString)

\* The body's error member; empty when it has none.
ErrorMember(b) == IF "error" \in b.keys THEN b.error ELSE ""

FailureStatus(s) == s >= 400

(***************************************************************************)
(* C1.  Every completed call of Pack returns either a response and a nil   *)
(* error, or a nil response and an error: never both, never neither.       *)
(***************************************************************************)
C1_ExactlyOneOutcome ==
  \A i \in Callers :
    Done(i) =>
      \/ result[i].resp # Nil /\ result[i].err = Nil
      \/ result[i].resp = Nil /\ result[i].err # Nil

C1_Witness ==
  \E i, j \in Callers :
    /\ Done(i) /\ result[i].resp # Nil
    /\ Done(j) /\ GotResponse(j) /\ GotBody(j) /\ result[j].err # Nil

(***************************************************************************)
(* C2.  A reply with a status other than OK whose body decodes makes Pack  *)
(* fail with an ApplicationError that carries the status code and the      *)
(* body's error member if it is non-empty, the raw body otherwise; no      *)
(* response is returned.                                                   *)
(***************************************************************************)
C2_StatusErrorCarriesMessage ==
  \A i \in Callers :
    (Done(i) /\ GotResponse(i) /\ GotBody(i)
       /\ ServedStatus(i) # 200 /\ Decodes(ServedBody(i))) =>
      /\ result[i].resp = Nil
      /\ result[i].err # Nil
      /\ IsApplicationError(result[i].err[1])
      /\ result[i].err[1].status = <<ServedStatus(i)>>
      /\ IF ErrorMember(ServedBody(i)) # ""
         THEN /\ result[i].err[1].text = <<ErrorMember(ServedBody(i))>>
              /\ result[i].err[1].body = <<>>
         ELSE /\ result[i].err[1].text = <<>>
              /\ result[i].err[1].body = <<ServedBody(i)>>

C2_Witness ==
  \E i \in Callers :
    /\ Done(i) /\ GotResponse(i) /\ GotBody(i)
    /\ ServedStatus(i) = 500
    /\ ServedBody(i) = BodyErrorOnly
    /\ result[i].err # Nil
    /\ result[i].err[1].text = <<"carton too large">>

(***************************************************************************)
(* C3.  A reply with status OK whose body decodes makes Pack return the    *)
(* decoded response with a nil error, whatever the body's error member:    *)
(* the error member, the pallets and the summary are those the server sent.*)
(***************************************************************************)
C3_SuccessReturnsResponseAsIs ==
  \A i \in Callers :
    (Done(i) /\ GotResponse(i) /\ GotBody(i)
       /\ ServedStatus(i) = 200 /\ Decodes(ServedBody(i))) =>
      /\ result[i].err = Nil
      /\ result[i].resp # Nil
      /\ LET r == result[i].resp[1]
             b == ServedBody(i) IN
         /\ r.Error = ErrorMember(b)
         /\ Len(r.Pallets) = Len(b.pallets)
         /\ \A k \in 1..Len(b.pallets) :
              /\ r.Pallets[k].PalletID = b.pallets[k].pallet_id
              /\ r.Pallets[k].Cartons = b.pallets[k].cartons
         /\ r.Summary.TotalPallets = b.summary.total_pallets
         /\ r.Summary.TotalCartonsPacked = b.summary.total_cartons_packed

C3_Witness ==
  \E i, j \in Callers :
    /\ Done(i) /\ GotResponse(i) /\ GotBody(i) /\ ServedStatus(i) = 200
    /\ ServedBody(i) = BodySoftError
    /\ result[i].resp # Nil /\ result[i].resp[1].Error = "carton too large"
    /\ Done(j) /\ GotResponse(j) /\ GotBody(j) /\ ServedStatus(j) = 200
    /\ ServedBody(j) = BodyFixture
    /\ result[j].resp # Nil /\ Len(result[j].resp[1].Pallets) = 1

(***************************************************************************)
(* C4.  As stated: whenever the body does not parse, for any status code,  *)
(* Pack fails with a DecodeError that carries the raw response body.       *)
(***************************************************************************)
C4_DecodeErrorCarriesBody ==
  \A i \in Callers :
    (Done(i) /\ GotResponse(i) /\ GotBody(i) /\ ~Decodes(ServedBody(i))) =>
      /\ result[i].resp = Nil
      /\ result[i].err # Nil
      /\ IsDecodeError(result[i].err[1])
      /\ result[i].err[1].body = <<ServedBody(i)>>

(***************************************************************************)
(* C4, amended.  Whenever the body does not parse, for any status code,    *)
(* Pack fails with a DecodeError that wraps the parser's error and carries *)
(* neither the raw body nor the status code; no response is returned.      *)
(***************************************************************************)
C4_DecodeErrorWrapsParserError ==
  \A i \in Callers :
    (Done(i) /\ GotResponse(i) /\ GotBody(i) /\ ~Decodes(ServedBody(i))) =>
      /\ result[i].resp = Nil
      /\ result[i].err # Nil
      /\ IsDecodeError(result[i].err[1])
      /\ result[i].err[1].cause # <<>>
      /\ result[i].err[1].body = <<>>
      /\ result[i].err[1].text = <<>>
      /\ result[i].err[1].status = <<>>

C4_Witness ==
  \E i, j \in Callers :
    /\ Done(i) /\ GotResponse(i) /\ GotBody(i)
    /\ ServedStatus(i) = 500 /\ ServedBody(i) = BodyHTML
    /\ result[i].err # Nil /\ IsDecodeError(result[i].err[1])
    /\ Done(j) /\ GotResponse(j) /\ GotBody(j)
    /\ ServedStatus(j) = 200 /\ ServedBody(j) = BodyErrorNumber
    /\ result[j].err # Nil /\ IsDecodeError(result[j].err[1])

(***************************************************************************)
(* C5.  As stated: whenever the status of the reply indicates failure,     *)
(* whatever the body contains, Pack fails with an ApplicationError that    *)
(* carries the status code.                                                *)
(***************************************************************************)
C5_FailureStatusAlwaysApplicationError ==
  \A i \in Callers :
    (Done(i) /\ GotResponse(i) /\ GotBody(i) /\ FailureStatus(ServedStatus(i))) =>
      /\ result[i].err # Nil
      /\ IsApplicationError(result[i].err[1])
      /\ result[i].err[1].status = <<ServedStatus(i)>>

(***************************************************************************)
(* C5, amended.  Whenever the status of the reply indicates failure, Pack  *)
(* returns no response and fails: with an ApplicationError that carries    *)
(* the status code and the body's error member, or the raw body when that  *)
(* member is empty, if the body was read in full and decodes; with the     *)
(* read error (a TransportError) if the body could not be read; with a     *)
(* DecodeError if it does not decode.  The last two carry no status code.  *)
(***************************************************************************)
C5_FailureStatusErrorByBody ==
  \A i \in Callers :
    (Done(i) /\ GotResponse(i) /\ FailureStatus(ServedStatus(i))) =>
      /\ result[i].resp = Nil
      /\ result[i].err # Nil
      /\ LET e == result[i].err[1] IN
         IF ~GotBody(i)
         THEN e.fmt = "failed to read response: %w" /\ e.status = <<>>
         ELSE IF ~Decodes(ServedBody(i))
         THEN IsDecodeError(e) /\ e.status = <<>>
         ELSE /\ IsApplicationError(e)
              /\ e.status = <<ServedStatus(i)>>
              /\ \/ e.text = <<ErrorMember(ServedBody(i))>> /\ e.text # <<"">>
                 \/ e.body = <<ServedBody(i)>> /\ ErrorMember(ServedBody(i)) = ""

C5_Witness ==
  \E i, j \in Callers :
    /\ Done(i) /\ GotResponse(i) /\ GotBody(i)
    /\ ServedStatus(i) = 500 /\ ServedBody(i) = BodyUnknownKey
    /\ result[i].err # Nil /\ result[i].err[1].body = <<BodyUnknownKey>>
    /\ Done(j) /\ GotResponse(j) /\ GotBody(j)
    /\ ServedStatus(j) = 400 /\ ServedBody(j) = BodyHTML
    /\ result[j].err # Nil /\ IsDecodeError(result[j].err[1])

C7_CancelledCallFailsWithTransportError ==
  \A i \in Callers :
    (Done(i) /\ ctx[i] = "canceled") =>
      /\ result[i].resp = Nil
      /\ result[i].err # Nil
      /\ IsTransportError(result[i].err[1])

C7_Witness ==
  \E i, j \in Callers :
    /\ Done(i) /\ ctx[i] = "canceled" /\ GotResponse(i)
    /\ result[i].err # Nil /\ result[i].err[1].fmt = "failed to read response: %w"
    /\ Done(j) /\ ctx[j] = "canceled" /\ served[j].do # Nil /\ ~GotResponse(j)
    /\ result[j].err # Nil /\ result[j].err[1].fmt = "failed to send request: %w"

(***************************************************************************)
(* C8.  A response body is open only while its invocation is reading it:   *)
(* when Pack has returned, on any path, the body Do gave it is closed, and *)
(* with no invocation in flight no body opened by Pack is open.            *)
(***************************************************************************)
OpenBodies == {i \in Callers : bodyOpen[i]}

C8_NoBodyLeftOpen ==
  /\ \A i \in Callers : bodyOpen[i] => pc[i] = "read"
  /\ (\A i \in Callers : pc[i] \in {"idle", "done"}) => Cardinality(OpenBodies) = 0

C8_Witness ==
  \E i, j \in Callers :
    /\ Done(i) /\ GotResponse(i) /\ GotBody(i) /\ result[i].err # Nil /\ ~bodyOpen[i]
    /\ Done(j) /\ GotResponse(j) /\ ~GotBody(j) /\ ~bodyOpen[j]

(***************************************************************************)
(* C9.  No Pack call modifies the client, and in every interleaving the    *)
(* result of each invocation is the one the same request, the same reply   *)
(* and the same context give an invocation that runs alone.                *)
(***************************************************************************)
\* Pack run start to end on its own inputs.
PackAlone(c, r, s) ==
  LET p == PackPrepare(c, r) IN
  IF ~p.ok THEN p.ret
  ELSE IF ~s.do[1].ok THEN SendFailureReturn(s.do[1].cause)
  ELSE PackFinish(s.do[1].StatusCode[1], s.read[1])

\* What was delivered to invocation i is something its own context allows.
OwnContext(i) ==
  ctx[i] = "canceled" =>
    \/ served[i].do = Nil
    \/ served[i].do[1].cause = "context canceled"
    \/ served[i].do[1].ok /\ served[i].read # Nil
         /\ served[i].read[1].cause = "context canceled"

Isolated ==
  \A i \in Callers :
    Done(i) => result[i] = PackAlone(client, request[i][1], served[i]) /\ OwnContext(i)

C9_InvocationsIsolated == []Isolated /\ [][client' = client]_vars

C9_Witness ==
  \E i, j \in Callers :
    /\ i # j
    /\ Done(i) /\ GotResponse(i) /\ ServedStatus(i) = 200 /\ result[i].resp # Nil
    /\ pc[j] = "read" /\ StatusCodeOf(resp[j]) = 500 /\ ctx[j] = "canceled"

(***************************************************************************)
(* C10.  The presets are fixed values and equal the conversion helpers     *)
(* applied to their nominal sizes: 40 x 72 x 48 in and 1500 lb for         *)
(* StandardPallet, 40 x 48 x 48 in and 1500 lb for StandardPallet4048      *)
(* (25.4 mm per inch, 453.592 g per pound, exact decimal arithmetic).      *)
(***************************************************************************)
Nominal4072 ==
  [length |-> 40000, width |-> 72000, height |-> 48000, pounds |-> 1500000]

Nominal4048 ==
  [length |-> 40000, width |-> 48000, height |-> 48000, pounds |-> 1500000]

Tolerance == 10

Within(a, b) == a - b <= Tolerance /\ b - a <= Tolerance

C12_ResponseOnlyOnExactly200 ==
  \A i \in Callers :
    /\ (Done(i) /\ result[i].resp # Nil) =>
         /\ GotResponse(i) /\ ServedStatus(i) = 200
         /\ GotBody(i) /\ Decodes(ServedBody(i))
    /\ (Done(i) /\ GotResponse(i) /\ ServedStatus(i) # 200) =>
         /\ result[i].resp = Nil
         /\ result[i].err # Nil

C12_Witness ==
  \E i \in Callers :
    /\ Done(i) /\ GotResponse(i) /\ GotBody(i)
    /\ ServedStatus(i) = 201 /\ ServedBody(i) = BodyFixture
    /\ result[i].resp = Nil /\ result[i].err # Nil
    /\ result[i].err[1].status = <<201>>

====
